---------------------------- MODULE Spec2Model ----------------------------
(***************************************************************************)
(* A model of src/app.py, the String Analyzer service: the analyzer        *)
(* helpers, the StringRecord table, the five request handlers and the      *)
(* keyword interpreter of the natural-language filter.                     *)
(*                                                                         *)
(* A Python str is a sequence of one-character strings.  The characters    *)
(* are the printable ASCII ones; among them " " is the only whitespace.    *)
(* The table is a bag (multiset) of rows, as an SQL table is; the PRIMARY  *)
(* KEY of line 43 is enforced where the INSERT is flushed (InsertRow).     *)
(* The column created_at (line 50) is left out of the rows: it is set by   *)
(* the column default at INSERT, no handler reads it except to print it.   *)
(* Routing is outside the model: a handler is called with its argument.    *)
(* The routes / and /health touch no state and are left out.               *)
(***************************************************************************)
EXTENDS Integers, Sequences, FiniteSets, Bags, TLC

VARIABLES
    table,     \* the rows of StringRecord, a bag
    before,    \* history: the table as the last request found it
    live,      \* history: the values created (201) and not deleted (204) since
    last,      \* the last request handled and the response it got
    inflight   \* per worker: the request it is in the middle of

vars == <<table, before, live, last, inflight>>

-----------------------------------------------------------------------------
(* Python's str, as far as the program uses it *)

\* code points 32..95
Printable ==
    <<" ", "!", "\"", "#", "$", "%", "&", "'", "(", ")", "*", "+", ",", "-",
      ".", "/", "0", "1", "2", "3", "4", "5", "6", "7", "8", "9", ":", ";", "<",
      "=", ">", "?", "@", "A", "B", "C", "D", "E", "F", "G", "H", "I", "J", "K",
      "L", "M", "N", "O", "P", "Q", "R", "S", "T", "U", "V", "W", "X", "Y", "Z",
      "[", "\\", "]", "^", "_">>

\* code points 97..126 (the grave accent, 96, is not in the model)
PrintableLow ==
    <<"a", "b", "c", "d", "e", "f", "g", "h", "i", "j", "k", "l", "m", "n", "o",
      "p", "q", "r", "s", "t", "u", "v", "w", "x", "y", "z", "{", "|", "}", "~">>

Chars == {Printable[i] : i \in DOMAIN Printable}
             \cup {PrintableLow[i] : i \in DOMAIN PrintableLow}

\* ord(c): the code point of c
ord[c \in Chars] ==
    IF \E i \in DOMAIN Printable : Printable[i] = c
    THEN 31 + (CHOOSE i \in DOMAIN Printable : Printable[i] = c)
    ELSE 96 + (CHOOSE i \in DOMAIN PrintableLow : PrintableLow[i] = c)

\* chr(n), n in 32..126 and not 96
chr(n) == IF n < 96 THEN Printable[n - 31] ELSE PrintableLow[n - 96]

isupper(c) == ord[c] \in 65..90

isdigit(c) == ord[c] \in 48..57

\* c.isalnum()
isalnum(c) == ord[c] \in (48..57) \cup (65..90) \cup (97..122)

\* c.isspace()
isspace(c) == c = " "

\* c.lower()
lower(c) == IF isupper(c) THEN chr(ord[c] + 32) ELSE c

\* s.lower()
str_lower(s) == [i \in 1..Len(s) |-> lower(s[i])]

\* s[::-1]
Reverse(s) == [i \in 1..Len(s) |-> s[Len(s) + 1 - i]]

\* s.find(pat) + 1: the first place pat occurs in s, 0 when it does not
Find(s, pat) ==
    LET hits == {i \in 1..(Len(s) - Len(pat) + 1) :
                    SubSeq(s, i, i + Len(pat) - 1) = pat}
    IN  IF hits = {} THEN 0 ELSE CHOOSE i \in hits : \A j \in hits : i <= j

\* pat in s
Contains(s, pat) == Find(s, pat) # 0

\* s.split(sep), sep not empty
RECURSIVE split_sep(_, _)
split_sep(s, sep) ==
    LET at == Find(s, sep)
    IN  IF at = 0
        THEN <<s>>
        ELSE <<SubSeq(s, 1, at - 1)>>
                 \o split_sep(SubSeq(s, at + Len(sep), Len(s)), sep)

\* s.split(): the maximal runs of non-whitespace
RECURSIVE split(_)
split(s) ==
    IF s = <<>> THEN <<>>
    ELSE IF isspace(s[1]) THEN split(Tail(s))
    ELSE LET stops == {i \in 1..Len(s) : isspace(s[i])}
             end   == IF stops = {} THEN Len(s) + 1
                      ELSE CHOOSE i \in stops : \A j \in stops : i <= j
         IN  <<SubSeq(s, 1, end - 1)>> \o split(SubSeq(s, end, Len(s)))

\* s.strip()
RECURSIVE strip(_)
strip(s) ==
    IF s = <<>> THEN s
    ELSE IF isspace(s[1]) THEN strip(Tail(s))
    ELSE IF isspace(s[Len(s)]) THEN strip(SubSeq(s, 1, Len(s) - 1))
    ELSE s

\* the value of a run of decimal digits, underscores skipped
RECURSIVE DigitsValue(_)
DigitsValue(s) ==
    IF s = <<>> THEN 0
    ELSE IF s[Len(s)] = "_" THEN DigitsValue(SubSeq(s, 1, Len(s) - 1))
    ELSE 10 * DigitsValue(SubSeq(s, 1, Len(s) - 1)) + (ord[s[Len(s)]] - 48)

\* int(s): [ok |-> FALSE] where Python raises ValueError.  Python takes
\* surrounding whitespace, one sign, and digits with single underscores
\* between them.
int(s) ==
    LET t      == strip(s)
        signed == t # <<>> /\ t[1] \in {"+", "-"}
        d      == IF signed THEN Tail(t) ELSE t
        wellFormed ==
            /\ d # <<>>
            /\ \A i \in 1..Len(d) : isdigit(d[i]) \/ d[i] = "_"
            /\ isdigit(d[1]) /\ isdigit(d[Len(d)])
            /\ \A i \in 1..(Len(d) - 1) : ~(d[i] = "_" /\ d[i + 1] = "_")
    IN  IF ~wellFormed THEN [ok |-> FALSE, val |-> 0]
        ELSE [ok |-> TRUE,
              val |-> IF signed /\ t[1] = "-" THEN 0 - DigitsValue(d)
                      ELSE DigitsValue(d)]

-----------------------------------------------------------------------------
(* Helper functions, lines 17-39 *)

\* value.encode(): the bytes of an ASCII string are its code points
encode(value) == [i \in 1..Len(value) |-> ord[value[i]]]

\* hashlib.sha256(...).hexdigest().  SHA-256 is taken to be free of
\* collisions: the digest is modelled by the bytes digested.
compute_sha256(value) == encode(value)

\* is_palindrome without the c.lower() of line 21
is_palindrome_CaseSensitive(value) ==
    LET cleaned == SelectSeq(value, isalnum)
    IN  cleaned = Reverse(cleaned)

is_palindrome(value) ==
    LET cleaned == str_lower(SelectSeq(value, isalnum))
    IN  cleaned = Reverse(cleaned)

\* freq[c] = freq.get(c, 0) + 1
FreqStep(freq, c) ==
    IF c \in DOMAIN freq THEN [freq EXCEPT ![c] = @ + 1] ELSE freq @@ (c :> 1)

RECURSIVE FreqLoop(_, _)
FreqLoop(freq, rest) ==
    IF rest = <<>> THEN freq ELSE FreqLoop(FreqStep(freq, rest[1]), Tail(rest))

get_character_frequency_map(value) == FreqLoop(<<>>, value)

analyze_string(value) ==
    LET words == split(value)
    IN  [length                  |-> Len(value),
         is_palindrome           |-> is_palindrome(value),
         unique_characters       |-> Cardinality({value[i] : i \in DOMAIN value}),
         word_count              |-> Len(words),
         sha256_hash             |-> compute_sha256(value),
         character_frequency_map |-> get_character_frequency_map(value)]

-----------------------------------------------------------------------------
(* The StringRecord table, lines 42-65, and what the session does to it *)

None == [some |-> FALSE, v |-> <<>>]

Some(x) == [some |-> TRUE, v |-> x]

Rows(tbl) == BagToSet(tbl)

\* NewRecord with two of the counts taken for each other
NewRecord_SwappedCounts(value, props) ==
    [id                      |-> props.sha256_hash,
     value                   |-> value,
     length                  |-> props.length,
     is_palindrome           |-> props.is_palindrome,
     unique_characters       |-> props.word_count,
     word_count              |-> props.unique_characters,
     character_frequency_map |-> props.character_frequency_map]

\* StringRecord(id=..., value=..., ...), lines 103-111
NewRecord(value, props) ==
    [id                      |-> props.sha256_hash,
     value                   |-> value,
     length                  |-> props.length,
     is_palindrome           |-> props.is_palindrome,
     unique_characters       |-> props.unique_characters,
     word_count              |-> props.word_count,
     character_frequency_map |-> props.character_frequency_map]

to_dict(r) ==
    [id         |-> r.id,
     value      |-> r.value,
     properties |-> [length                  |-> r.length,
                     is_palindrome           |-> r.is_palindrome,
                     unique_characters       |-> r.unique_characters,
                     word_count              |-> r.word_count,
                     sha256_hash             |-> r.id,
                     character_frequency_map |-> r.character_frequency_map]]

\* StringRecord.query.get(id): the row of that primary key, or None
QueryGet(tbl, id) ==
    LET hits == {r \in Rows(tbl) : r.id = id}
    IN  IF hits = {} THEN [found |-> FALSE]
        ELSE [found |-> TRUE, record |-> CHOOSE r \in hits : TRUE]

\* InsertRow into a table whose id column is no primary key
InsertRow_NoPrimaryKey(tbl, rec) ==
    [ok |-> TRUE, table |-> tbl (+) SetToBag({rec})]

\* db.session.add(record); db.session.commit().  The INSERT of a row whose
\* primary key (line 43) is already in the table fails: the commit raises
\* IntegrityError and the table is as it was.
InsertRow(tbl, rec) ==
    IF \E r \in Rows(tbl) : r.id = rec.id
    THEN [ok |-> FALSE, table |-> tbl]
    ELSE [ok |-> TRUE, table |-> tbl (+) SetToBag({rec})]

\* DeleteRow without the commit of line 189
DeleteRow_NoCommit(tbl, rec) == tbl

\* db.session.delete(record); db.session.commit(): DELETE ... WHERE id = ?.
\* A row already gone is a warning of the mapper, not an exception.
DeleteRow(tbl, rec) ==
    LET gone == {r \in Rows(tbl) : r.id = rec.id}
    IN  tbl (-) [r \in gone |-> tbl[r]]

\* SQLite's LIKE (the database of line 10): % is any run of characters, _ any
\* one character, and ASCII letters match whatever their case.
RECURSIVE Like(_, _)
Like(s, pat) ==
    IF pat = <<>> THEN s = <<>>
    ELSE IF pat[1] = "%"
         THEN Like(s, Tail(pat)) \/ (s # <<>> /\ Like(Tail(s), pat))
    ELSE IF s = <<>> THEN FALSE
    ELSE /\ pat[1] = "_" \/ lower(pat[1]) = lower(s[1])
         /\ Like(Tail(s), Tail(pat))

\* StringRecord.value.contains(other): value LIKE '%' || other || '%',
\* other not escaped
ColumnContains(value, other) == Like(value, <<"%">> \o other \o <<"%">>)

\* query.all() and the list comprehension over it
Serialize(rows) == {to_dict(r) : r \in rows}

-----------------------------------------------------------------------------
(* POST /strings, lines 82-116 *)

\* request.get_json(): no (or an empty) object, an object without 'value',
\* one whose 'value' is not a str, one whose 'value' is the str value
NoBody == [body |-> FALSE, has_value |-> FALSE, is_str |-> FALSE, value |-> <<>>]

NoValueField == [body |-> TRUE, has_value |-> FALSE, is_str |-> FALSE, value |-> <<>>]

NonStringValue == [body |-> TRUE, has_value |-> TRUE, is_str |-> FALSE, value |-> <<>>]

StrBody(value) == [body |-> TRUE, has_value |-> TRUE, is_str |-> TRUE, value |-> value]

\* CreateCheck without the existence check of lines 98-100
CreateCheck_NoExistenceCheck(tbl, data) ==
    IF ~data.body \/ ~data.has_value
    THEN [done |-> TRUE,
          response |-> [status |-> 400, error |-> "Missing 'value' field"]]
    ELSE IF ~data.is_str
    THEN [done |-> TRUE,
          response |-> [status |-> 422, error |-> "'value' must be a string"]]
    ELSE [done |-> FALSE,
          record |-> NewRecord(data.value, analyze_string(data.value))]

\* lines 84-111: up to the existence check and the new record
CreateCheck(tbl, data) ==
    IF ~data.body \/ ~data.has_value
    THEN [done |-> TRUE,
          response |-> [status |-> 400, error |-> "Missing 'value' field"]]
    ELSE IF ~data.is_str
    THEN [done |-> TRUE,
          response |-> [status |-> 422, error |-> "'value' must be a string"]]
    ELSE LET value     == data.value
             props     == analyze_string(value)
             string_id == props.sha256_hash
             existing  == QueryGet(tbl, string_id)
         IN  IF existing.found
             THEN [done |-> TRUE,
                   response |-> [status |-> 409, error |-> "String already exists"]]
             ELSE [done |-> FALSE, record |-> NewRecord(value, props)]

\* lines 113-116.  No handler catches the IntegrityError of a failed
\* commit: Flask answers an unhandled exception with 500.
CreateCommit(tbl, record) ==
    LET ins == InsertRow(tbl, record)
    IN  IF ins.ok
        THEN [response |-> [status |-> 201, body |-> to_dict(record)],
              table    |-> ins.table]
        ELSE [response |-> [status |-> 500, error |-> "IntegrityError"],
              table    |-> ins.table]

analyze_and_store_string(tbl, data) ==
    LET c == CreateCheck(tbl, data)
    IN  IF c.done THEN [response |-> c.response, table |-> tbl]
        ELSE CreateCommit(tbl, c.record)

-----------------------------------------------------------------------------
(* GET /strings/{value}, lines 121-129 *)

\* get_specific_string hashing the lower-cased value
get_specific_string_Lowercased(tbl, string_value) ==
    LET hash_value == compute_sha256(str_lower(string_value))
        record     == QueryGet(tbl, hash_value)
    IN  IF ~record.found
        THEN [status |-> 404, error |-> "String not found"]
        ELSE [status |-> 200, body |-> to_dict(record.record)]

get_specific_string(tbl, string_value) ==
    LET hash_value == compute_sha256(string_value)
        record     == QueryGet(tbl, hash_value)
    IN  IF ~record.found
        THEN [status |-> 404, error |-> "String not found"]
        ELSE [status |-> 200, body |-> to_dict(record.record)]

-----------------------------------------------------------------------------
(* DELETE /strings/{value}, lines 180-190 *)

\* lines 182-186: the lookup
DeleteCheck(tbl, string_value) ==
    LET hash_value == compute_sha256(string_value)
        record     == QueryGet(tbl, hash_value)
    IN  IF ~record.found
        THEN [done |-> TRUE,
              response |-> [status |-> 404, error |-> "String not found"]]
        ELSE [done |-> FALSE, record |-> record.record]

\* lines 188-190
DeleteCommit(tbl, record) ==
    [response |-> [status |-> 204], table |-> DeleteRow(tbl, record)]

delete_string(tbl, string_value) ==
    LET c == DeleteCheck(tbl, string_value)
    IN  IF c.done THEN [response |-> c.response, table |-> tbl]
        ELSE DeleteCommit(tbl, c.record)

-----------------------------------------------------------------------------
(* GET /strings, lines 135-174 *)

\* request.args.get(key, type=int): None when the parameter is absent or
\* int() raises ValueError
ArgInt(arg) ==
    IF ~arg.some THEN [some |-> FALSE, v |-> 0]
    ELSE LET n == int(arg.v)
         IN  IF n.ok THEN [some |-> TRUE, v |-> n.val] ELSE [some |-> FALSE, v |-> 0]

\* one entry of a dict, or none
Entry(present, key, val) == IF present THEN key :> val ELSE <<>>

get_all_strings(tbl, args) ==
    LET is_palindrome_param == args.is_palindrome
        pal        == is_palindrome_param.some
        pal_value  == str_lower(is_palindrome_param.v) = <<"t", "r", "u", "e">>
        min_length == ArgInt(args.min_length)
        max_length == ArgInt(args.max_length)
        word_count == ArgInt(args.word_count)
        contains_character == args.contains_character
        cc         == contains_character.some /\ contains_character.v # <<>>
        filters    == Entry(pal, "is_palindrome", pal_value)
                          @@ Entry(min_length.some, "min_length", min_length.v)
                          @@ Entry(max_length.some, "max_length", max_length.v)
                          @@ Entry(word_count.some, "word_count", word_count.v)
                          @@ Entry(cc, "contains_character", contains_character.v)
        records    == {r \in Rows(tbl) :
                          /\ pal => r.is_palindrome = pal_value
                          /\ min_length.some => r.length >= min_length.v
                          /\ max_length.some => r.length <= max_length.v
                          /\ word_count.some => r.word_count = word_count.v
                          /\ cc => ColumnContains(r.value, contains_character.v)}
        found      == [r \in records |-> tbl[r]]
    IN  [status          |-> 200,
         data            |-> Serialize(records),
         count           |-> BagCardinality(found),
         filters_applied |-> filters]

-----------------------------------------------------------------------------
(* GET /strings/filter-by-natural-language, lines 196-246 *)

KwPalindromic == <<"p", "a", "l", "i", "n", "d", "r", "o", "m", "i", "c">>

KwSingleWord == <<"s", "i", "n", "g", "l", "e", " ", "w", "o", "r", "d">>

KwOneWord == <<"o", "n", "e", " ", "w", "o", "r", "d">>

KwLongerThan == <<"l", "o", "n", "g", "e", "r", " ", "t", "h", "a", "n">>

KwContain == <<"c", "o", "n", "t", "a", "i", "n">>

\* "abcdefghijklmnopqrstuvwxyz", in the order the loop of line 218 takes them
Letters == [i \in 1..26 |-> chr(96 + i)]

\* lines 207-208
RulePalindromic(q) == Entry(Contains(q, KwPalindromic), "is_palindrome", TRUE)

\* lines 209-210
RuleSingleWord(q) ==
    Entry(Contains(q, KwSingleWord) \/ Contains(q, KwOneWord), "word_count", 1)

\* lines 211-216: an IndexError (nothing follows the phrase) or a ValueError
\* (the token is no integer) is caught and the rule adds nothing
RuleLongerThan(q) ==
    IF ~Contains(q, KwLongerThan) THEN <<>>
    ELSE LET tokens == split(split_sep(q, KwLongerThan)[2])
         IN  IF tokens = <<>> THEN <<>>
             ELSE LET num == int(tokens[1])
                  IN  Entry(num.ok, "min_length", num.val + 1)

\* lines 217-221: the first letter of the alphabet that follows a space
\* anywhere in q
RuleContain(q) ==
    IF ~Contains(q, KwContain) THEN <<>>
    ELSE LET hits == {i \in DOMAIN Letters : Contains(q, <<" ", Letters[i]>>)}
         IN  IF hits = {} THEN <<>>
             ELSE "contains_character" :>
                      <<Letters[CHOOSE i \in hits : \A j \in hits : i <= j]>>

\* lines 205-221: parsed_filters
ParseQuery(query_text) ==
    LET q == str_lower(query_text)
    IN  RulePalindromic(q) @@ RuleSingleWord(q) @@ RuleLongerThan(q)
            @@ RuleContain(q)

\* filter_by_natural_language without the check of lines 223-224
filter_by_natural_language_NoParseError(tbl, query_text) ==
    IF query_text = <<>>
    THEN [status |-> 400, error |-> "Missing query parameter"]
    ELSE LET parsed_filters == ParseQuery(query_text)
             has(key) == key \in DOMAIN parsed_filters
             results  == {r \in Rows(tbl) :
                 /\ has("is_palindrome") => r.is_palindrome = TRUE
                 /\ has("word_count") => r.word_count = parsed_filters["word_count"]
                 /\ has("min_length") => r.length >= parsed_filters["min_length"]
                 /\ has("contains_character") =>
                        ColumnContains(r.value, parsed_filters["contains_character"])}
             found    == [r \in results |-> tbl[r]]
         IN  [status |-> 200,
              data   |-> Serialize(results),
              count  |-> BagCardinality(found),
              interpreted_query |-> [original       |-> query_text,
                                     parsed_filters |-> parsed_filters]]

filter_by_natural_language(tbl, query_text) ==
    IF query_text = <<>>
    THEN [status |-> 400, error |-> "Missing query parameter"]
    ELSE LET parsed_filters == ParseQuery(query_text)
             has(key) == key \in DOMAIN parsed_filters
             results  == {r \in Rows(tbl) :
                 /\ has("is_palindrome") => r.is_palindrome = TRUE
                 /\ has("word_count") => r.word_count = parsed_filters["word_count"]
                 /\ has("min_length") => r.length >= parsed_filters["min_length"]
                 /\ has("contains_character") =>
                        ColumnContains(r.value, parsed_filters["contains_character"])}
             found    == [r \in results |-> tbl[r]]
         IN  IF DOMAIN parsed_filters = {}
             THEN [status |-> 400,
                   error  |-> "Unable to parse natural language query"]
             ELSE [status |-> 200,
                   data   |-> Serialize(results),
                   count  |-> BagCardinality(found),
                   interpreted_query |-> [original       |-> query_text,
                                          parsed_filters |-> parsed_filters]]

-----------------------------------------------------------------------------
(* The requests the model sends *)

\* "", "a", "A", "ab", "a b", "!"
Values ==
    {<<>>, <<"a">>, <<"A">>, <<"a", "b">>, <<"a", " ", "b">>, <<"!">>}

PostBodies == {NoBody, NoValueField, NonStringValue} \cup {StrBody(v) : v \in Values}

\* the query parameters of GET /strings, each absent or a raw string
NoArgs ==
    [is_palindrome |-> None, min_length |-> None, max_length |-> None,
     word_count |-> None, contains_character |-> None]

ListArgs ==
    [is_palindrome      : {None, Some(<<"T", "r", "u", "e">>),
                                 Some(<<"f", "a", "l", "s", "e">>)},
     min_length         : {None, Some(<<"2">>)},
     max_length         : {None, Some(<<"1">>)},
     word_count         : {None, Some(<<"1">>)},
     contains_character : {None, Some(<<"a">>), Some(<<"%">>)}]
        \cup {[NoArgs EXCEPT !.min_length = Some(<<"x">>)],
              [NoArgs EXCEPT !.word_count = Some(<<" ", "0", " ">>)],
              [NoArgs EXCEPT !.contains_character = Some(<<>>)]}

\* "find palindromic strings"
QFindPalindromic ==
    <<"f", "i", "n", "d", " ", "p", "a", "l", "i", "n", "d", "r", "o", "m", "i",
      "c", " ", "s", "t", "r", "i", "n", "g", "s">>

\* "strings longer than 10 that contain z"
QLongerContainZ ==
    <<"s", "t", "r", "i", "n", "g", "s", " ", "l", "o", "n", "g", "e", "r", " ",
      "t", "h", "a", "n", " ", "1", "0", " ", "t", "h", "a", "t", " ", "c", "o",
      "n", "t", "a", "i", "n", " ", "z">>

\* "banana"
QBanana == <<"b", "a", "n", "a", "n", "a">>

\* "single word strings longer than 0"
QSingleLonger ==
    <<"s", "i", "n", "g", "l", "e", " ", "w", "o", "r", "d", " ", "s", "t", "r",
      "i", "n", "g", "s", " ", "l", "o", "n", "g", "e", "r", " ", "t", "h", "a",
      "n", " ", "0">>

SampleQueries == {<<>>, QBanana, QFindPalindromic, QLongerContainZ, QSingleLonger}

Workers == {"w1", "w2"}

Idle == [op |-> "idle"]

-----------------------------------------------------------------------------
(* The service, one request at a time *)

Init ==
    /\ table = EmptyBag
    /\ before = EmptyBag
    /\ live = {}
    /\ last = [op |-> "none"]
    /\ inflight = [w \in Workers |-> Idle]

PostString(data) ==
    LET r == analyze_and_store_string(table, data)
    IN  /\ table' = r.table
        /\ before' = table
        /\ live' = IF r.response.status = 201 THEN live \cup {data.value} ELSE live
        /\ last' = [op |-> "create", value |-> data.value, data |-> data,
                    response |-> r.response]
        /\ UNCHANGED inflight

GetString(string_value) ==
    /\ last' = [op |-> "get", value |-> string_value,
                response |-> get_specific_string(table, string_value)]
    /\ before' = table
    /\ UNCHANGED <<table, live, inflight>>

ListStrings(args) ==
    /\ last' = [op |-> "list", args |-> args,
                response |-> get_all_strings(table, args)]
    /\ before' = table
    /\ UNCHANGED <<table, live, inflight>>

DeleteString(string_value) ==
    LET r == delete_string(table, string_value)
    IN  /\ table' = r.table
        /\ before' = table
        /\ live' = IF r.response.status = 204 THEN live \ {string_value} ELSE live
        /\ last' = [op |-> "delete", value |-> string_value,
                    response |-> r.response]
        /\ UNCHANGED inflight

NaturalLanguage(query_text) ==
    /\ last' = [op |-> "nl", query |-> query_text,
                response |-> filter_by_natural_language(table, query_text)]
    /\ before' = table
    /\ UNCHANGED <<table, live, inflight>>

Next ==
    \/ \E data \in PostBodies : PostString(data)
    \/ \E v \in Values : GetString(v)
    \/ \E args \in ListArgs : ListStrings(args)
    \/ \E v \in Values : DeleteString(v)
    \/ \E q \in SampleQueries : NaturalLanguage(q)

Spec == Init /\ [][Next]_vars

-----------------------------------------------------------------------------
(* The service with two requests under way at once.  A handler's steps are
   its statements that reach the database: the lookup (query.get) and the
   commit.  Between them another worker may run. *)

\* "a", "a b"
ConcValues == {<<"a">>, <<"a", " ", "b">>}

Answer(w, op, value, response, raced) ==
    last' = [op |-> op, worker |-> w, value |-> value, response |-> response,
             raced |-> raced]

\* lines 84-111
BeginCreate(w, data) ==
    LET c == CreateCheck(table, data)
    IN  /\ inflight[w] = Idle
        /\ IF c.done
           THEN /\ Answer(w, "create", data.value, c.response, FALSE)
                /\ UNCHANGED inflight
           ELSE /\ inflight' = [inflight EXCEPT ![w] =
                                    [op |-> "create", record |-> c.record]]
                /\ UNCHANGED last
        /\ UNCHANGED <<table, before, live>>

\* lines 113-116; raced: another request has stored the key since the check
FinishCreate(w) ==
    /\ inflight[w].op = "create"
    /\ LET record == inflight[w].record
           r      == CreateCommit(table, record)
       IN  /\ table' = r.table
           /\ Answer(w, "create", record.value, r.response,
                     QueryGet(table, record.id).found)
    /\ inflight' = [inflight EXCEPT ![w] = Idle]
    /\ UNCHANGED <<before, live>>

\* lines 182-186
BeginDelete(w, string_value) ==
    LET c == DeleteCheck(table, string_value)
    IN  /\ inflight[w] = Idle
        /\ IF c.done
           THEN /\ Answer(w, "delete", string_value, c.response, FALSE)
                /\ UNCHANGED inflight
           ELSE /\ inflight' = [inflight EXCEPT ![w] =
                                    [op |-> "delete", record |-> c.record]]
                /\ UNCHANGED last
        /\ UNCHANGED <<table, before, live>>

\* lines 188-190
FinishDelete(w) ==
    /\ inflight[w].op = "delete"
    /\ LET record == inflight[w].record
           r      == DeleteCommit(table, record)
       IN  /\ table' = r.table
           /\ Answer(w, "delete", record.value, r.response,
                     ~QueryGet(table, record.id).found)
    /\ inflight' = [inflight EXCEPT ![w] = Idle]
    /\ UNCHANGED <<before, live>>

WorkerGet(w, string_value) ==
    /\ inflight[w] = Idle
    /\ Answer(w, "get", string_value,
              get_specific_string(table, string_value), FALSE)
    /\ UNCHANGED <<table, before, live, inflight>>

WorkerList(w) ==
    /\ inflight[w] = Idle
    /\ Answer(w, "list", <<>>, get_all_strings(table, NoArgs), FALSE)
    /\ UNCHANGED <<table, before, live, inflight>>

NextConc ==
    \E w \in Workers :
        \/ \E v \in ConcValues : BeginCreate(w, StrBody(v))
        \/ FinishCreate(w)
        \/ \E v \in ConcValues : BeginDelete(w, v)
        \/ FinishDelete(w)
        \/ \E v \in ConcValues : WorkerGet(w, v)
        \/ WorkerList(w)

SpecConc == Init /\ [][NextConc]_vars

-----------------------------------------------------------------------------
(* The analyzer alone: analyze_string called on every string of a bounded
   set, as line 94 calls it on the value posted *)

MaxLen == 4

\* upper and lower case, a digit, whitespace, punctuation
AnalyzeChars == {"a", "A", "b", "1", " ", "!"}

StringsUpTo(chars, n) == UNION {[1..k -> chars] : k \in 0..n}

\* "A man a plan a canal Panama"
Panama ==
    <<"A", " ", "m", "a", "n", " ", "a", " ", "p", "l", "a", "n", " ", "a", " ",
      "c", "a", "n", "a", "l", " ", "P", "a", "n", "a", "m", "a">>

\* "hello"
Hello == <<"h", "e", "l", "l", "o">>

AnalyzeInputs == StringsUpTo(AnalyzeChars, MaxLen) \cup {Panama, Hello}

\* the call as it is made
InitAnalyze ==
    /\ table = EmptyBag
    /\ before = EmptyBag
    /\ live = {}
    /\ \E value \in AnalyzeInputs : last = [op |-> "call", value |-> value]
    /\ inflight = [w \in Workers |-> Idle]

Analyze ==
    /\ last.op = "call"
    /\ last' = [op |-> "analyze", value |-> last.value,
                result |-> analyze_string(last.value)]
    /\ UNCHANGED <<table, before, live, inflight>>

NextAnalyze == Analyze

SpecAnalyze == InitAnalyze /\ [][NextAnalyze]_vars

-----------------------------------------------------------------------------
(* The natural-language filter over query texts put together from the
   phrases its rules look for *)

MaxFragments == 4

\* " ", "10", "z", "x", "Palindromic", "One Word", "longer than", "contain"
Fragments ==
    {<<" ">>, <<"1", "0">>, <<"z">>, <<"x">>,
     <<"P", "a", "l", "i", "n", "d", "r", "o", "m", "i", "c">>,
     <<"O", "n", "e", " ", "W", "o", "r", "d">>,
     KwLongerThan, KwContain}

RECURSIVE Join(_)
Join(parts) == IF parts = <<>> THEN <<>> ELSE parts[1] \o Join(Tail(parts))

QueryTexts ==
    {Join(parts) : parts \in StringsUpTo(Fragments, MaxFragments)}
        \cup SampleQueries \cup {KwSingleWord}

\* the table after each of the values has been posted
TableOf(values) == SetToBag({NewRecord(v, analyze_string(v)) : v \in values})

\* the request as it arrives, over an empty and over a filled table
InitNL ==
    /\ \E values \in {{}, Values} :
           /\ table = TableOf(values)
           /\ before = table
           /\ live = values
    /\ \E q \in QueryTexts : last = [op |-> "request", query |-> q]
    /\ inflight = [w \in Workers |-> Idle]

NextNL == last.op = "request" /\ NaturalLanguage(last.query)

SpecNL == InitNL /\ [][NextNL]_vars

-----------------------------------------------------------------------------
(* Properties *)

Stored(tbl, value) == \E r \in Rows(tbl) : r.value = value

Status(code) == last.response.status = code

\* C1: from a store without s, the create of s answers 201; a create of s
\* right after that one answers 409 and leaves the table as the first left
\* it.  (A step of Spec whose last' is a create is that create.)
C1_CreateThenCreateAgain ==
    [][\A s \in Values :
          /\ (/\ last'.op = "create" /\ last'.data = StrBody(s)
              /\ ~Stored(table, s))
                 => last'.response.status = 201
          /\ (/\ last.op = "create" /\ last.data = StrBody(s) /\ Status(201)
              /\ last'.op = "create" /\ last'.data = StrBody(s))
                 => (last'.response.status = 409 /\ table' = table)]_vars

\* the second create of a value has been answered 409, the table untouched
C1_Witness ==
    /\ last.op = "create" /\ last.data.is_str /\ Status(409)
    /\ last.value \in live /\ table = before

\* C2: whatever the interleaving of the requests, the table holds one row
\* at most for a value, and that row's key is the hash of the value.
C2_OneRecordPerValue ==
    \A r \in Rows(table) :
        /\ CopiesIn(r, table) = 1
        /\ r.id = compute_sha256(r.value)
        /\ \A r2 \in Rows(table) : r2.value = r.value => r2 = r

\* both values are stored and a create that lost a race has just been answered
C2_Witness ==
    /\ BagCardinality(table) = 2
    /\ last.op = "create" /\ last.raced

\* C3: a create that passed the existence check and finds, when it commits,
\* that another request has stored the value, answers 409; one that commits
\* first answers 201.
C3_RaceLoserGetsConflict ==
    last.op = "create"
        => IF last.raced THEN Status(409) ELSE Status(201) \/ Status(409)

DeleteOutcome(value) ==
    IF ~Stored(before, value)
    THEN Status(404) /\ table = before
    ELSE /\ Status(204)
         /\ Rows(table) = {r \in Rows(before) : r.value # value}
         /\ \A r \in Rows(table) : table[r] = before[r]

Satisfies(r, criteria) ==
    LET has(key) == key \in DOMAIN criteria
    IN  /\ has("is_palindrome") => r.is_palindrome = criteria["is_palindrome"]
        /\ has("min_length") => r.length >= criteria["min_length"]
        /\ has("max_length") => r.length <= criteria["max_length"]
        /\ has("word_count") => r.word_count = criteria["word_count"]
        /\ has("contains_character") =>
               Contains(r.value, criteria["contains_character"])

\* C6: the listing returns the stored records that satisfy every criterion
\* applied, and those only.
C6_FilterExact ==
    last.op = "list"
        => /\ Status(200)
           /\ last.response.data =
                  Serialize({r \in Rows(before) :
                                Satisfies(r, last.response.filters_applied)})

\* no rule of the four produced a criterion from the text
NoCriterion(query_text) ==
    LET q == str_lower(query_text)
    IN  /\ DOMAIN RulePalindromic(q) = {}
        /\ DOMAIN RuleSingleWord(q) = {}
        /\ DOMAIN RuleLongerThan(q) = {}
        /\ DOMAIN RuleContain(q) = {}

ParseError ==
    /\ Status(400)
    /\ last.response.error = "Unable to parse natural language query"

\* the criteria of the four rules together
Criteria(query_text) ==
    LET q == str_lower(query_text)
    IN  RulePalindromic(q) @@ RuleSingleWord(q) @@ RuleLongerThan(q)
            @@ RuleContain(q)

ParseOutcome ==
    /\ ParseError <=> NoCriterion(last.query)
    /\ ~NoCriterion(last.query)
           => /\ Status(200)
              /\ last.response.interpreted_query.parsed_filters
                     = Criteria(last.query)
    /\ last.query = QBanana => ParseError

\* C7 as stated: for every query text, ParseError exactly when no rule
\* produced a criterion.
C7_ParseErrorIffNoCriterion == last.op = "nl" => ParseOutcome

\* C7 as amended: the same for every query text that is not empty; the
\* empty text is answered 400 "Missing query parameter".
C7_ParseErrorIffNoCriterionNonEmpty ==
    last.op = "nl"
        => IF last.query = <<>>
           THEN /\ Status(400)
                /\ last.response.error = "Missing query parameter"
           ELSE ParseOutcome

\* "banana" has been answered with the parse error
C7_Witness == last.op = "nl" /\ last.query = QBanana /\ ParseError

\* C8: the criteria read from the two example texts.
C8_Examples ==
    (last.op = "nl" /\ last.query \in {QFindPalindromic, QLongerContainZ})
        => /\ Status(200)
           /\ last.response.interpreted_query.parsed_filters =
                  IF last.query = QFindPalindromic
                  THEN "is_palindrome" :> TRUE
                  ELSE "min_length" :> 11 @@ "contains_character" :> <<"z">>

\* value read backwards is value
Mirrored(s) == \A i \in 1..Len(s) : s[i] = s[Len(s) + 1 - i]

\* C9: is_palindrome is true exactly when the alphanumeric characters of the
\* value, in lower case, read the same backwards; so for the empty string,
\* for a string without alphanumeric characters and for the Panama
\* sentence, and not for "hello".
C9_Palindrome ==
    last.op = "analyze"
        => LET kept == SelectSeq(last.value, isalnum)
               p    == last.result.is_palindrome
           IN  /\ p <=> Mirrored([i \in 1..Len(kept) |-> lower(kept[i])])
               /\ kept = <<>> => p
               /\ last.value = Panama => p
               /\ last.value = Hello => ~p

\* a palindrome only once case and punctuation are set aside
C9_Witness ==
    /\ last.op = "analyze" /\ last.result.is_palindrome
    /\ last.value = Panama /\ ~Mirrored(last.value)

\* C10: every stored row holds the analysis of its value; a create answered
\* 201 adds its row, a delete answered 204 removes its row, and every other
\* request leaves the table as it found it.
C10_RecordsImmutable ==
    /\ \A r \in Rows(table) :
           LET a == analyze_string(r.value)
           IN  /\ r.length = a.length
               /\ r.is_palindrome = a.is_palindrome
               /\ r.unique_characters = a.unique_characters
               /\ r.word_count = a.word_count
               /\ r.character_frequency_map = a.character_frequency_map
    /\ last.op = "none" => table = before
    /\ last.op \in {"get", "list", "nl"} => table = before
    /\ last.op = "create" =>
           IF Status(201)
           THEN \E r \in Rows(table) :
                    r.value = last.value /\ table = before (+) SetToBag({r})
           ELSE table = before
    /\ last.op = "delete" =>
           IF Status(204)
           THEN /\ Rows(table) = {r \in Rows(before) : r.value # last.value}
                /\ \A r \in Rows(table) : table[r] = before[r]
           ELSE table = before

\* a read over a table of several rows
C10_Witness ==
    /\ last.op \in {"get", "list", "nl"}
    /\ BagCardinality(table) >= 2 /\ table = before
=============================================================================
